---------------------------- MODULE Spec2Model ----------------------------
(***************************************************************************)
(* A model of the image comparison service of src/index.js: the four HTTP  *)
(* handlers, the download of temporary files, compareImages and its        *)
(* sub-steps, analyzeColors (sampling loop, colour buckets, palette) and   *)
(* compareRegionColors (region clamp, extraction, bucket matching).        *)
(*                                                                         *)
(* JavaScript values are modelled as follows.  A byte is a number 0..255;  *)
(* a read past the end of a buffer is undefined; Math.floor of undefined   *)
(* is NaN.  A string is the sequence of its characters, so that building   *)
(* a bucket key and splitting it again are real conversions.               *)
(***************************************************************************)
EXTENDS Integers, Sequences, FiniteSets, TLC

(***************************************************************************)
(* Program constants.                                                      *)
(***************************************************************************)
Stride == 3            \* i += 3 in every buffer loop
GroupSize == 10        \* Math.floor(pixel.r / 10) * 10
threshold == 15        \* const threshold = 15
PaletteSize == 5       \* sortedColors.slice(0, 5)
BadRequest == 400      \* res.status(400)
ServerError == 500     \* res.status(500)

(***************************************************************************)
(* Bounds of the model.  The code samples a 50 x 50 grid; the model        *)
(* samples GridWidth x GridHeight cells, which keeps the buffers small     *)
(* and leaves the loop, whose only input is the buffer length, unchanged.  *)
(***************************************************************************)
GridWidth == 2
GridHeight == 2
MaxDim == 2            \* widths and heights of the images of a region match
MaxClock == 2          \* the milliseconds Date.now() runs through
MaxRequests == 1       \* the requests the server receives

(***************************************************************************)
(* JavaScript values.                                                      *)
(***************************************************************************)
undefined == -1        \* buffer[i] with i >= buffer.length
NaN == -2              \* Math.floor(undefined / n), Number("NaN")

Digits == <<"0", "1", "2", "3", "4", "5", "6", "7", "8", "9">>

RECURSIVE ToStr(_)
\* `${n}` for an integer n >= 0: its decimal digits.
ToStr(n) ==
    IF n < 10 THEN <<Digits[n + 1]>>
    ELSE ToStr(n \div 10) \o <<Digits[(n % 10) + 1]>>

\* `${v}` for a number or NaN.
NumStr(v) == IF v = NaN THEN <<"N", "a", "N">> ELSE ToStr(v)

RECURSIVE SplitFrom(_, _, _)
\* s.split(",") continued: cur is the piece being read, i the next position.
SplitFrom(s, i, cur) ==
    IF i > Len(s) THEN <<cur>>
    ELSE IF s[i] = "," THEN <<cur>> \o SplitFrom(s, i + 1, <<>>)
    ELSE SplitFrom(s, i + 1, Append(cur, s[i]))

\* key.split(",")
Split(s) == SplitFrom(s, 1, <<>>)

RECURSIVE DigitsValue(_, _)
DigitsValue(s, acc) ==
    IF s = <<>> THEN acc
    ELSE DigitsValue(Tail(s),
                     acc * 10 + ((CHOOSE d \in 1..10 : Digits[d] = Head(s)) - 1))

\* Number(s) for the strings the code builds: decimal digits, or "NaN".
Number(s) ==
    IF \A i \in 1..Len(s) : \E d \in 1..10 : Digits[d] = s[i]
    THEN DigitsValue(s, 0)
    ELSE NaN

\* buffer[i] with a 0-based index, as in the code.
At(buffer, i) == IF i < Len(buffer) THEN buffer[i + 1] ELSE undefined

\* Math.floor(v / n) for a byte or undefined.
FloorDiv(v, n) == IF v = undefined THEN NaN ELSE v \div n

\* Math.floor(v / n) * n
FloorTo(v, n) == IF FloorDiv(v, n) = NaN THEN NaN ELSE FloorDiv(v, n) * n

Abs(x) == IF x < 0 THEN -x ELSE x
Min(a, b) == IF a < b THEN a ELSE b
Max(a, b) == IF a > b THEN a ELSE b

(***************************************************************************)
(* analyzeColors: the sampling loop.                                       *)
(***************************************************************************)
\* for (let i = 0; i < data.length; i += 3) pixels.push({r, g, b})
SamplePixels(buffer) ==
    [k \in 1..((Len(buffer) + Stride - 1) \div Stride) |->
        [r |-> At(buffer, Stride * (k - 1)),
         g |-> At(buffer, Stride * (k - 1) + 1),
         b |-> At(buffer, Stride * (k - 1) + 2)]]

(***************************************************************************)
(* analyzeColors: colour buckets, ranking, dominant colour and palette.    *)
(***************************************************************************)
\* `${floor(r/10)*10},${floor(g/10)*10},${floor(b/10)*10}`
GroupKey(pixel) ==
    NumStr(FloorTo(pixel.r, GroupSize)) \o <<",">> \o
    NumStr(FloorTo(pixel.g, GroupSize)) \o <<",">> \o
    NumStr(FloorTo(pixel.b, GroupSize))

\* An object used as a map keeps its (non-index) keys in insertion order:
\* a sequence of [key, count].  map[key] = (map[key] || 0) + 1.
Increment(groups, key) ==
    IF \E i \in 1..Len(groups) : groups[i].key = key
    THEN [i \in 1..Len(groups) |->
            IF groups[i].key = key
            THEN [groups[i] EXCEPT !.count = @ + 1]
            ELSE groups[i]]
    ELSE Append(groups, [key |-> key, count |-> 1])

RECURSIVE CountGroups(_, _, _)
\* pixels.forEach(pixel => colorGroups[key]++), from pixel i on.
CountGroups(pixels, i, groups) ==
    IF i > Len(pixels) THEN groups
    ELSE CountGroups(pixels, i + 1, Increment(groups, GroupKey(pixels[i])))

\* .map(([key, count]) => ({rgb: key.split(",").map(Number), count}))
Entries(groups) ==
    [i \in 1..Len(groups) |->
        [rgb |-> [c \in 1..Len(Split(groups[i].key)) |->
                     Number(Split(groups[i].key)[c])],
         count |-> groups[i].count]]

\* A faulty variant of the sort: equal counts come out in reverse order.
RankTiesReversed(es, i) ==
    1 + Cardinality({j \in 1..Len(es) :
                        \/ es[j].count > es[i].count
                        \/ es[j].count = es[i].count /\ j > i})

\* The place of entry i after .sort((a, b) => b.count - a.count): the sort
\* is stable, so equal counts keep their order.
Rank(es, i) ==
    1 + Cardinality({j \in 1..Len(es) :
                        \/ es[j].count > es[i].count
                        \/ es[j].count = es[i].count /\ j < i})

SortByCount(es) ==
    [k \in 1..Len(es) |-> es[CHOOSE i \in 1..Len(es) : Rank(es, i) = k]]

\* A faulty variant of slice: one entry more.
SliceOneMore(s, n) == SubSeq(s, 1, Min(n + 1, Len(s)))

\* s.slice(0, n)
Slice(s, n) == SubSeq(s, 1, Min(n, Len(s)))

\* analyzeColors after the resize: data is the raw buffer of the resized
\* image.  sortedColors[0].rgb of an empty list is a TypeError.
AnalyzeColors(buffer) ==
    LET pixels == SamplePixels(buffer)
        sortedColors == SortByCount(Entries(CountGroups(pixels, 1, <<>>)))
    IN  IF Len(sortedColors) = 0
        THEN [ok |-> FALSE, pixels |-> pixels]
        ELSE [ok |-> TRUE,
              pixels |-> pixels,
              dominant |-> sortedColors[1].rgb,
              palette |-> [i \in 1..Len(Slice(sortedColors, PaletteSize)) |->
                              Slice(sortedColors, PaletteSize)[i].rgb]]


(***************************************************************************)
(* Images as the codec sees them.  An image is its width, height, channel  *)
(* count, its cells in row-major order (each cell the bytes of one pixel,  *)
(* of which the first `channels` are stored) and the per-channel           *)
(* statistics the codec reports for it.                                    *)
(***************************************************************************)
VARIABLES
    sample,      \* analyzeColors: the image handed to it
    data,        \* analyzeColors: the raw buffer of the resized image
    analysis,    \* analyzeColors: what it returned
    apc,         \* analyzeColors: "resize", "loop" or "done"
    rImage1,     \* compareRegionColors: the base image
    rRegion,     \* compareRegionColors: the region asked for
    rValid,      \* compareRegionColors: validRegion
    rBuffer,     \* compareRegionColors: regionBuffer
    rImage2,     \* compareRegionColors: the candidate image
    rResult,     \* compareRegionColors: what it returned
    rpc,         \* compareRegionColors: position in the function
    clock,       \* the server: Date.now()
    uploads,     \* the server: the temporary files of the uploads directory
    served,      \* the server: requests received so far
    req,         \* the server: the request being handled
    hpc,         \* the server: position of the handler
    dl,          \* the server: the downloads (and unlinks) of the request
    work,        \* the server: what compareImages has computed so far
    res,         \* the server: the responses sent for the request
    calls        \* the server: how often each sub-step was started

RECURSIVE RawFrom(_, _, _)
\* .raw().toBuffer(): the stored bytes of every cell, row by row.
RawFrom(cells, channels, i) ==
    IF i > Len(cells) THEN <<>>
    ELSE SubSeq(cells[i], 1, channels) \o RawFrom(cells, channels, i + 1)

RawBuffer(img) == RawFrom(img.cells, img.channels, 1)

\* The cell of img at column x, row y (0-based).
CellAt(img, x, y) == img.cells[y * img.width + x + 1]

\* .resize(w, h, {fit: "cover"}): an image of exactly w x h cells with the
\* channels of the source.  The codec's resampling is taken to be
\* nearest-neighbour; the loop reads only the shape of the result.
Resize(img, w, h) ==
    [img EXCEPT
        !.width = w,
        !.height = h,
        !.cells = [k \in 1..(w * h) |->
                      CellAt(img, (((k - 1) % w) * img.width) \div w,
                                  (((k - 1) \div w) * img.height) \div h)]]

(***************************************************************************)
(* Inputs of the analyzeColors specification.                              *)
(***************************************************************************)
ChannelCounts == {1, 3, 4}

\* The colours a cell may have: black, a dark grey of the same bucket,
\* and a saturated colour with partial alpha.
SampleColours == {<<0, 0, 0, 0>>, <<9, 9, 9, 255>>, <<255, 19, 0, 128>>}

NoStats == <<>>

SampleImages ==
    {[width |-> GridWidth, height |-> GridHeight, channels |-> ch,
      cells |-> cs, stats |-> NoStats] :
        ch \in ChannelCounts,
        cs \in [1..(GridWidth * GridHeight) -> SampleColours]}

NoAnalysis == [ok |-> FALSE, pixels |-> <<>>]

(***************************************************************************)
(* compareRegionColors.                                                    *)
(***************************************************************************)
\* validRegion: left and top are clamped into the image; width and height
\* are cut to what lies right of and below the left and top asked for.
ValidRegion(region, metadata) ==
    [left |-> Max(0, Min(region.left, metadata.width)),
     top |-> Max(0, Min(region.top, metadata.height)),
     width |-> Min(region.width, metadata.width - region.left),
     height |-> Min(region.height, metadata.height - region.top)]

\* Whether a rectangle lies inside an image.
Inside(rect, img) ==
    /\ rect.left >= 0
    /\ rect.top >= 0
    /\ rect.width >= 0
    /\ rect.height >= 0
    /\ rect.left + rect.width <= img.width
    /\ rect.top + rect.height <= img.height

\* A faulty variant of extract: an empty image for an empty rectangle.
ExtractAllowsEmpty(img, rect) ==
    IF Inside(rect, img)
    THEN [ok |-> TRUE,
          image |-> [img EXCEPT
                        !.width = rect.width,
                        !.height = rect.height,
                        !.cells = [k \in 1..(rect.width * rect.height) |->
                                      CellAt(img,
                                             rect.left + ((k - 1) % rect.width),
                                             rect.top + ((k - 1) \div rect.width))]]]
    ELSE [ok |-> FALSE, image |-> img]

\* image1.extract(validRegion): the codec takes only a rectangle of at
\* least one cell that lies inside the image (a negative number is refused
\* as a parameter, an empty or overhanging rectangle as a bad extract
\* area); otherwise the promise rejects.
Extract(img, rect) ==
    IF Inside(rect, img) /\ rect.width > 0 /\ rect.height > 0
    THEN [ok |-> TRUE,
          image |-> [img EXCEPT
                        !.width = rect.width,
                        !.height = rect.height,
                        !.cells = [k \in 1..(rect.width * rect.height) |->
                                      CellAt(img,
                                             rect.left + ((k - 1) % rect.width),
                                             rect.top + ((k - 1) \div rect.width))]]]
    ELSE [ok |-> FALSE, image |-> img]

\* `${floor(r/threshold)},${floor(g/threshold)},${floor(b/threshold)}`
ColorKey(color) ==
    NumStr(FloorDiv(color.r, threshold)) \o <<",">> \o
    NumStr(FloorDiv(color.g, threshold)) \o <<",">> \o
    NumStr(FloorDiv(color.b, threshold))

RECURSIVE RegionColors(_, _, _)
\* The first loop: regionColors.set(colorKey, (get(colorKey) || 0) + 1),
\* from pixel i of the region buffer on.  A Map keeps insertion order.
RegionColors(pixels, i, map) ==
    IF i > Len(pixels) THEN map
    ELSE RegionColors(pixels, i + 1, Increment(map, ColorKey(pixels[i])))

\* map.has(key)
Has(map, key) == \E i \in 1..Len(map) : map[i].key = key

\* colorMatches.set(colorKey, true)
SetTrue(map, key) ==
    IF Has(map, key) THEN map ELSE Append(map, [key |-> key, count |-> 1])

RECURSIVE ColorMatchesUnchecked(_, _, _, _)
\* A faulty variant: every colour key of the candidate image is recorded.
ColorMatchesUnchecked(pixels, i, regionColors, map) ==
    IF i > Len(pixels) THEN map
    ELSE ColorMatchesUnchecked(pixels, i + 1, regionColors,
                               SetTrue(map, ColorKey(pixels[i])))

RECURSIVE ColorMatches(_, _, _, _)
\* The second loop: a key of the candidate image is recorded when
\* regionColors has it.
ColorMatches(pixels, i, regionColors, map) ==
    IF i > Len(pixels) THEN map
    ELSE ColorMatches(pixels, i + 1, regionColors,
                      IF Has(regionColors, ColorKey(pixels[i]))
                      THEN SetTrue(map, ColorKey(pixels[i]))
                      ELSE map)

\* Array.from(map.keys())
Keys(map) == [i \in 1..Len(map) |-> map[i].key]

\* (matched / total * 100).toFixed(2): 0 / 0 is NaN, which prints as
\* "NaN"; otherwise the value rounded to hundredths, half up, printed with
\* two decimals.
ToFixed2(matched, total) ==
    IF total = 0 THEN <<"N", "a", "N">>
    ELSE LET h == (2 * matched * 100 * 100 + total) \div (2 * total)
         IN  ToStr(h \div 100) \o <<".">> \o
             <<Digits[((h % 100) \div 10) + 1], Digits[(h % 10) + 1]>>

\* The statistics and the result object.
RegionResult(regionColors, colorMatches, validRegion) ==
    LET matchedColors == Keys(colorMatches)
        regionUniqueColors == Keys(regionColors)
        Unmatched(color) == ~Has(colorMatches, color)
    IN  [ok |-> TRUE,
         totalRegionColors |-> Len(regionUniqueColors),
         matchedColorsCount |-> Len(matchedColors),
         matchPercentage |-> ToFixed2(Len(matchedColors), Len(regionUniqueColors)),
         unmatchedColors |-> SelectSeq(regionUniqueColors, Unmatched),
         regionInfo |-> validRegion,
         colorDistribution |-> [region |-> regionColors,
                                matches |-> matchedColors]]

\* What the catch block turns every failure into.
RegionError ==
    [ok |-> FALSE,
     totalRegionColors |-> 0,
     matchedColorsCount |-> 0,
     matchPercentage |-> <<>>,
     unmatchedColors |-> <<>>,
     regionInfo |-> [left |-> 0, top |-> 0, width |-> 0, height |-> 0],
     colorDistribution |-> [region |-> <<>>, matches |-> <<>>]]

\* compareRegionColors on two decoded images, from the region buffer on.
MatchBuffers(regionBuffer, image2Buffer, validRegion) ==
    LET regionColors == RegionColors(SamplePixels(regionBuffer), 1, <<>>)
    IN  RegionResult(regionColors,
                     ColorMatches(SamplePixels(image2Buffer), 1, regionColors, <<>>),
                     validRegion)

\* compareRegionColors on two decoded images.
CompareRegionColors(image1, region, image2) ==
    LET validRegion == ValidRegion(region, image1)
        extracted == Extract(image1, validRegion)
    IN  IF extracted.ok
        THEN MatchBuffers(RawBuffer(extracted.image), RawBuffer(image2), validRegion)
        ELSE RegionError

(***************************************************************************)
(* Inputs of the compareRegionColors specification.                        *)
(***************************************************************************)
\* Colours on both sides of a bucket border of width 15.
RegionColours == <<<<0, 0, 0, 0>>, <<14, 14, 14, 255>>, <<255, 30, 15, 128>>>>

Paintings == {"flat", "mixed", "bright"}

\* The colour of cell k of a painting.
Painted(painting, k) ==
    CASE painting = "flat" -> RegionColours[1]
      [] painting = "bright" -> RegionColours[3]
      [] OTHER -> RegionColours[(k % Len(RegionColours)) + 1]

RegionImage(w, h, ch, painting) ==
    [width |-> w, height |-> h, channels |-> ch,
     cells |-> [k \in 1..(w * h) |-> Painted(painting, k)],
     stats |-> NoStats]

BaseImages ==
    {RegionImage(w, h, ch, p) :
        w \in 1..MaxDim, h \in 1..MaxDim, ch \in ChannelCounts, p \in Paintings}

CandidateImages ==
    {RegionImage(w, 1, ch, p) :
        w \in 1..MaxDim, ch \in ChannelCounts, p \in Paintings}

\* Regions: inside, on the border, negative and past the image.
Regions ==
    [left : -1..(MaxDim + 1), top : -1..(MaxDim + 1),
     width : -1..(MaxDim + 1), height : -1..(MaxDim + 1)]

NoRegion == [left |-> 0, top |-> 0, width |-> 0, height |-> 0]
NoImage == [width |-> 0, height |-> 0, channels |-> Stride, cells |-> <<>>,
            stats |-> NoStats]

colorVars == <<sample, data, analysis, apc>>

regionVars == <<rImage1, rRegion, rValid, rBuffer, rImage2, rResult, rpc>>

serverVars == <<clock, uploads, served, req, hpc, dl, work, res, calls>>

\* The sub-steps of compareImages.
Steps == {"metadata", "analyze", "colors", "region"}

Times == 0..MaxClock

NoRequest == [kind |-> "none", carrier |-> FALSE, a |-> "missing", b |-> "missing"]
NoDownload == [st |-> "none", path |-> 0, body |-> "none"]
Nothing == <<>>
NoWork ==
    [metadata1 |-> Nothing, metadata2 |-> Nothing,
     image1Analysis |-> Nothing, image2Analysis |-> Nothing,
     colorDifference |-> Nothing, result |-> Nothing]

\* The server after construction: no request, an empty uploads directory.
ServerInit ==
    /\ clock = 0
    /\ uploads = [t \in Times |-> "none"]
    /\ served = 0
    /\ req = NoRequest
    /\ hpc = "idle"
    /\ dl = [d \in 1..2 |-> NoDownload]
    /\ work = NoWork
    /\ res = <<>>
    /\ calls = [s \in Steps |-> 0]

ColorsIdle ==
    /\ sample = NoImage
    /\ data = <<>>
    /\ analysis = NoAnalysis
    /\ apc = "idle"

RegionIdle ==
    /\ rImage1 = NoImage
    /\ rRegion = NoRegion
    /\ rValid = NoRegion
    /\ rBuffer = <<>>
    /\ rImage2 = NoImage
    /\ rResult = RegionError
    /\ rpc = "idle"

RegionInit ==
    /\ ColorsIdle
    /\ ServerInit
    /\ rImage1 \in BaseImages
    /\ rRegion \in Regions
    /\ rValid = NoRegion
    /\ rBuffer = <<>>
    /\ rImage2 = NoImage
    /\ rResult = RegionError
    /\ rpc = "clamp"

\* const validRegion = {...}
ClampRegion ==
    /\ rpc = "clamp"
    /\ rValid' = ValidRegion(rRegion, rImage1)
    /\ rpc' = "extract"
    /\ UNCHANGED <<rImage1, rRegion, rBuffer, rImage2, rResult>>
    /\ UNCHANGED colorVars
    /\ UNCHANGED serverVars

\* await image1.extract(validRegion).raw().toBuffer(); `region` is not read
\* again.  A rejection goes to the catch block.
ExtractRegion ==
    /\ rpc = "extract"
    /\ IF Extract(rImage1, rValid).ok
       THEN /\ rBuffer' = RawBuffer(Extract(rImage1, rValid).image)
            /\ rpc' = "read"
       ELSE /\ rBuffer' = <<>>
            /\ rpc' = "failed"
    /\ rRegion' = NoRegion
    /\ UNCHANGED <<rImage1, rValid, rImage2, rResult>>
    /\ UNCHANGED colorVars
    /\ UNCHANGED serverVars

\* await image2.raw().toBuffer()
ReadCandidate ==
    /\ rpc = "read"
    /\ rImage2' \in CandidateImages
    /\ rpc' = "match"
    /\ UNCHANGED <<rImage1, rRegion, rValid, rBuffer, rResult>>
    /\ UNCHANGED colorVars
    /\ UNCHANGED serverVars

\* The two loops, the statistics and the return.
MatchRegion ==
    /\ rpc = "match"
    /\ rResult' = MatchBuffers(rBuffer, RawBuffer(rImage2), rValid)
    /\ rpc' = "done"
    /\ UNCHANGED <<rImage1, rRegion, rValid, rBuffer, rImage2>>
    /\ UNCHANGED colorVars
    /\ UNCHANGED serverVars

RegionNext == ClampRegion \/ ExtractRegion \/ ReadCandidate \/ MatchRegion

ColorsInit ==
    /\ RegionIdle
    /\ ServerInit
    /\ sample \in SampleImages
    /\ data = <<>>
    /\ analysis = NoAnalysis
    /\ apc = "resize"

\* image.resize(50, 50, {fit: "cover"}).raw().toBuffer()
ResizeSample ==
    /\ apc = "resize"
    /\ data' = RawBuffer(Resize(sample, GridWidth, GridHeight))
    /\ apc' = "loop"
    /\ UNCHANGED <<sample, analysis>>
    /\ UNCHANGED regionVars
    /\ UNCHANGED serverVars

\* The loop over data, the colour groups, the sort and the result.
AnalyzeSample ==
    /\ apc = "loop"
    /\ analysis' = AnalyzeColors(data)
    /\ apc' = "done"
    /\ UNCHANGED <<sample, data>>
    /\ UNCHANGED regionVars
    /\ UNCHANGED serverVars

vars == <<colorVars, regionVars, serverVars>>

ColorsNext == ResizeSample \/ AnalyzeSample

SpecColors == ColorsInit /\ [][ColorsNext]_vars

SpecRegion == RegionInit /\ [][RegionNext]_vars

(***************************************************************************)
(* The files the service is given, by name.  A picture decodes to an       *)
(* image; "text" holds bytes that are no image.  The statistics of the     *)
(* codec are the mean and the sample standard deviation of each stored     *)
(* channel; the pictures are chosen so that these, and the root mean       *)
(* square of the means, are whole numbers.                                 *)
(***************************************************************************)
Pictures == {"rgb", "wide", "rgba", "grey"}
Contents == Pictures \cup {"text"}

ImageOf(name) ==
    CASE name = "rgb" ->
            [width |-> 2, height |-> 2, channels |-> 3,
             cells |-> <<<<4, 8, 10, 255>>, <<0, 4, 6, 255>>,
                         <<0, 4, 6, 255>>, <<0, 4, 6, 255>>>>,
             stats |-> NoStats]
      [] name = "wide" ->
            [width |-> 3, height |-> 1, channels |-> 3,
             cells |-> <<<<2, 6, 8, 255>>, <<0, 4, 6, 255>>, <<1, 5, 7, 255>>>>,
             stats |-> NoStats]
      [] name = "rgba" ->
            [width |-> 1, height |-> 1, channels |-> 4,
             cells |-> <<<<2, 10, 14, 255>>>>,
             stats |-> NoStats]
      [] name = "grey" ->
            [width |-> 1, height |-> 1, channels |-> 1,
             cells |-> <<<<9, 9, 9, 255>>>>,
             stats |-> NoStats]
      [] OTHER -> NoImage

\* Math.sqrt of a number between 0 and 255 * 255, rounded down.
ISqrt(n) == CHOOSE r \in 0..255 : r * r <= n /\ n < (r + 1) * (r + 1)

RECURSIVE SumChannel(_, _, _)
SumChannel(cells, c, i) ==
    IF i > Len(cells) THEN 0 ELSE cells[i][c] + SumChannel(cells, c, i + 1)

RECURSIVE SumSquares(_, _, _, _)
SumSquares(cells, c, mean, i) ==
    IF i > Len(cells) THEN 0
    ELSE (cells[i][c] - mean) * (cells[i][c] - mean)
            + SumSquares(cells, c, mean, i + 1)

\* image.stats(): one {mean, stdev} per stored channel.
Stats(img) ==
    [c \in 1..img.channels |->
        LET mean == SumChannel(img.cells, c, 1) \div Len(img.cells)
        IN  [mean |-> mean,
             stdev |-> IF Len(img.cells) = 1 THEN 0
                       ELSE ISqrt(SumSquares(img.cells, c, mean, 1)
                                     \div (Len(img.cells) - 1))]]

\* calculateSaturation
CalculateSaturation(stats) ==
    IF Len(stats) < 3 THEN 0
    ELSE ISqrt((stats[1].mean * stats[1].mean + stats[2].mean * stats[2].mean
                   + stats[3].mean * stats[3].mean) \div 3)

\* calculateContrast
CalculateContrast(stats) == stats[1].stdev

\* Error messages are the list of their prefixes, outermost first:
\* new Error(`prefix: ${error.message}`).
Wrap(prefix, message) == <<prefix>> \o message

\* The rejection of a file operation that fails for a reason outside the
\* program (the disk, the network).
IoError == <<"EIO">>

\* sharp(path).metadata(), or a failure.
Metadata(name) ==
    IF name \in Pictures
    THEN [ok |-> TRUE, width |-> ImageOf(name).width,
          height |-> ImageOf(name).height, error |-> <<>>]
    ELSE [ok |-> FALSE, width |-> 0, height |-> 0,
          error |-> <<"Input file contains unsupported image format">>]

\* analyzeSingleImage: metadata, stats, analyzeColors; every failure is
\* rethrown as `Error: ...`.  (format and size are passed through from the
\* metadata and left out.)
AnalyzeSingleImage(name) ==
    IF ~Metadata(name).ok
    THEN [ok |-> FALSE, error |-> Wrap("Error", Metadata(name).error)]
    ELSE LET img == ImageOf(name)
             stats == Stats(img)
             colors == AnalyzeColors(RawBuffer(Resize(img, GridWidth, GridHeight)))
         IN  IF ~colors.ok
             THEN [ok |-> FALSE,
                   error |-> Wrap("Error", <<"Cannot read properties of undefined">>)]
             ELSE [ok |-> TRUE,
                   error |-> <<>>,
                   metadata |-> [width |-> img.width, height |-> img.height],
                   stats |-> [brightness |-> stats[1].mean,
                              saturation |-> CalculateSaturation(stats),
                              contrast |-> CalculateContrast(stats)],
                   dominantColors |-> colors.dominant,
                   colorPalette |-> colors.palette]

\* compareColors: channels[1] and channels[2] of an image with fewer than
\* three channels are undefined, and reading .mean of undefined throws.
CompareColors(name1, name2) ==
    IF ~Metadata(name1).ok \/ ~Metadata(name2).ok
    THEN [ok |-> FALSE, error |-> <<"Input file contains unsupported image format">>]
    ELSE LET analysis1 == Stats(ImageOf(name1))
             analysis2 == Stats(ImageOf(name2))
         IN  IF Len(analysis1) < 3 \/ Len(analysis2) < 3
             THEN [ok |-> FALSE, error |-> <<"Cannot read properties of undefined">>]
             ELSE [ok |-> TRUE,
                   error |-> <<>>,
                   redDifference |-> Abs(analysis1[1].mean - analysis2[1].mean),
                   greenDifference |-> Abs(analysis1[2].mean - analysis2[2].mean),
                   blueDifference |-> Abs(analysis1[3].mean - analysis2[3].mean)]

\* handleRegionComparison: compareRegionColors, whose catch block prefixes
\* the message, prefixed once more.
HandleRegionComparison(path1, path2, region) ==
    IF ~Metadata(path1).ok \/ ~Metadata(path2).ok
    THEN [ok |-> FALSE,
          error |-> Wrap("Region comparison error",
                         Wrap("Region color comparison error",
                              <<"Input file contains unsupported image format">>))]
    ELSE LET result == CompareRegionColors(ImageOf(path1), region, ImageOf(path2))
         IN  IF result.ok
             THEN [ok |-> TRUE, error |-> <<>>, value |-> result]
             ELSE [ok |-> FALSE,
                   error |-> Wrap("Region comparison error",
                                  Wrap("Region color comparison error",
                                       <<"extract_area: bad extract area">>))]

\* A faulty variant: saturation compared with saturation.
SaturationDifferenceOfSaturations(image1Analysis, image2Analysis) ==
    Abs(image1Analysis.stats.saturation - image2Analysis.stats.saturation)

\* saturationComparison.difference
SaturationDifference(image1Analysis, image2Analysis) ==
    Abs(image1Analysis.stats.contrast - image2Analysis.stats.saturation)

\* The comparison object of compareImages, once every awaited part is there.
Comparison(metadata1, metadata2, image1Analysis, image2Analysis, colorDifference, colorsRegion) ==
    [dimensionDifference |->
        [width |-> Abs(metadata1.width - metadata2.width),
         height |-> Abs(metadata1.height - metadata2.height)],
     colorDifference |-> colorDifference,
     brightnessComparison |->
        [difference |-> Abs(image1Analysis.stats.brightness
                               - image2Analysis.stats.brightness)],
     saturationComparison |->
        [difference |-> SaturationDifference(image1Analysis, image2Analysis)],
     dominantColors |-> [image1 |-> image1Analysis.dominantColors,
                         image2 |-> image2Analysis.dominantColors],
     contrastComparison |->
        [difference |-> Abs(image1Analysis.stats.contrast
                               - image2Analysis.stats.contrast)],
     colorsRegion |-> [difference |-> colorsRegion]]

ComparisonFields ==
    {"dimensionDifference", "colorDifference", "brightnessComparison",
     "saturationComparison", "dominantColors", "contrastComparison",
     "colorsRegion"}

(***************************************************************************)
(* The server: handlers, downloads, compareImages step by step.            *)
(***************************************************************************)
UrlKind(kind) == kind \in {"compareUrls", "analyzeUrl"}

\* The downloads a request starts.
Needed(kind) ==
    IF kind = "compareUrls" THEN {1, 2}
    ELSE IF kind = "analyzeUrl" THEN {1}
    ELSE {}

\* The bytes at the i-th image path of the request: the temporary file of
\* download i, or the file the upload middleware stored.
ContentAt(i) ==
    IF UrlKind(req.kind) THEN uploads[dl[i].path]
    ELSE IF i = 1 THEN req.a ELSE req.b

InFlight(d) == dl[d].st \in {"fetching", "writing", "unlinking"}

\* A handler is entered when no other request is being handled.
Ready ==
    /\ hpc \in {"idle", "sent"}
    /\ served < MaxRequests
    /\ \A d \in 1..2 : ~InFlight(d)

\* res.status(status).json(body), or res.json(body) with status 200.
Send(status, body) ==
    /\ res' = Append(res, [status |-> status, body |-> body])
    /\ hpc' = "sent"

\* The same, as the answer of a handler before its first await: the
\* responses listed are those of the request being handled.
SendAtOnce(status, body) ==
    /\ res' = <<[status |-> status, body |-> body]>>
    /\ hpc' = "sent"

\* A sub-step of compareImages is started.
StartStep(step) ==
    /\ calls' = [calls EXCEPT ![step] = @ + 1]
    /\ hpc' = step

\* What a request may carry: req.files or req.body may be absent
\* altogether; each field may be absent.
Fields == Contents \cup {"missing"}

\* A faulty variant: a failed comparison answers what was computed so far.
CompareFailurePartial(partial, message) == [ok |-> TRUE, value |-> partial]

\* The catch block of compareImages.
CompareFailure(partial, message) ==
    [ok |-> FALSE, error |-> Wrap("Comparison Error", message)]

\* compareImages rejected: the handler's catch block answers.
CompareFailed(message) ==
    /\ IF CompareFailure(work, message).ok
       THEN Send(200, CompareFailure(work, message).value)
       ELSE Send(ServerError, [error |-> CompareFailure(work, message).error])
    /\ UNCHANGED <<clock, uploads, served, req, dl, work, calls>>

\* The handler's own catch block.
HandlerFailed(message) == Send(ServerError, [error |-> message])

\* return res.status(400).json({error: message})
Missing(message) == SendAtOnce(BadRequest, [error |-> message])

\* The handler's catch block, entered before the first await.
HandlerFailedAtOnce(message) == SendAtOnce(ServerError, [error |-> message])

\* handleFileComparison up to its first await.  req.files["image1"] throws
\* when req.files is undefined.
HandleFileComparison ==
    /\ Ready
    /\ \E carrier \in BOOLEAN, a \in Fields, b \in Fields :
          /\ ~carrier => (a = "missing" /\ b = "missing")
          /\ req' = [kind |-> "compareFiles", carrier |-> carrier, a |-> a, b |-> b]
          /\ IF ~carrier
             THEN /\ HandlerFailedAtOnce(<<"Cannot read properties of undefined">>)
                  /\ calls' = [s \in Steps |-> 0]
             ELSE IF a = "missing" \/ b = "missing"
             THEN /\ Missing(<<"Both files are needed!">>)
                  /\ calls' = [s \in Steps |-> 0]
             ELSE /\ res' = <<>>
                  /\ hpc' = "metadata"
                  /\ calls' = [s \in Steps |-> IF s = "metadata" THEN 1 ELSE 0]
    /\ served' = served + 1
    /\ dl' = [d \in 1..2 |-> NoDownload]
    /\ work' = NoWork
    /\ UNCHANGED <<clock, uploads>>
    /\ UNCHANGED <<colorVars, regionVars>>

\* handleUrlComparison up to its first await.  Destructuring req.body
\* throws when req.body is undefined.  Both downloads are started.
HandleUrlComparison ==
    /\ Ready
    /\ \E carrier \in BOOLEAN, a \in Fields, b \in Fields :
          /\ ~carrier => (a = "missing" /\ b = "missing")
          /\ req' = [kind |-> "compareUrls", carrier |-> carrier, a |-> a, b |-> b]
          /\ IF ~carrier
             THEN /\ HandlerFailedAtOnce(<<"Cannot destructure property of undefined">>)
                  /\ dl' = [d \in 1..2 |-> NoDownload]
             ELSE IF a = "missing" \/ b = "missing"
             THEN /\ Missing(<<"Both URLs are needed!">>)
                  /\ dl' = [d \in 1..2 |-> NoDownload]
             ELSE /\ res' = <<>>
                  /\ hpc' = "download"
                  /\ dl' = [d \in 1..2 |-> [NoDownload EXCEPT !.st = "fetching"]]
    /\ served' = served + 1
    /\ work' = NoWork
    /\ calls' = [s \in Steps |-> 0]
    /\ UNCHANGED <<clock, uploads>>
    /\ UNCHANGED <<colorVars, regionVars>>

\* handleSingleImageAnalysis up to its first await.
HandleSingleImageAnalysis ==
    /\ Ready
    /\ \E a \in Fields :
          /\ req' = [kind |-> "analyzeFile", carrier |-> (a # "missing"),
                     a |-> a, b |-> "missing"]
          /\ IF a = "missing"
             THEN Missing(<<"File is required">>)
             ELSE /\ res' = <<>>
                  /\ hpc' = "analyzeOne"
    /\ served' = served + 1
    /\ dl' = [d \in 1..2 |-> NoDownload]
    /\ work' = NoWork
    /\ calls' = [s \in Steps |-> 0]
    /\ UNCHANGED <<clock, uploads>>
    /\ UNCHANGED <<colorVars, regionVars>>

\* handleUrlImageAnalysis up to its first await.
HandleUrlImageAnalysis ==
    /\ Ready
    /\ \E carrier \in BOOLEAN, a \in Fields :
          /\ ~carrier => a = "missing"
          /\ req' = [kind |-> "analyzeUrl", carrier |-> carrier, a |-> a,
                     b |-> "missing"]
          /\ IF ~carrier
             THEN /\ HandlerFailedAtOnce(<<"Cannot destructure property of undefined">>)
                  /\ dl' = [d \in 1..2 |-> NoDownload]
             ELSE IF a = "missing"
             THEN /\ Missing(<<"URL is required!">>)
                  /\ dl' = [d \in 1..2 |-> NoDownload]
             ELSE /\ res' = <<>>
                  /\ hpc' = "download"
                  /\ dl' = [d \in 1..2 |->
                              IF d = 1 THEN [NoDownload EXCEPT !.st = "fetching"]
                              ELSE NoDownload]
    /\ served' = served + 1
    /\ work' = NoWork
    /\ calls' = [s \in Steps |-> 0]
    /\ UNCHANGED <<clock, uploads>>
    /\ UNCHANGED <<colorVars, regionVars>>

\* A millisecond passes.  Only the downloads read the clock.
Tick ==
    /\ clock < MaxClock
    /\ \/ \E d \in 1..2 : dl[d].st = "fetching"
       \/ hpc = "sent" /\ served < MaxRequests
    /\ clock' = clock + 1
    /\ UNCHANGED <<uploads, served, req, hpc, dl, work, res, calls>>
    /\ UNCHANGED <<colorVars, regionVars>>

\* downloadImage: axios settles.  On success the file name is made from
\* Date.now() and the write is started; a rejection rejects Promise.all at
\* once, and with it the handler, while the other download goes on.
AxiosDone(d) ==
    /\ dl[d].st = "fetching"
    /\ \E ok \in BOOLEAN :
          IF ok
          THEN /\ dl' = [dl EXCEPT ![d] = [st |-> "writing", path |-> clock,
                                           body |-> IF d = 1 THEN req.a ELSE req.b]]
               /\ UNCHANGED <<hpc, res>>
          ELSE /\ dl' = [dl EXCEPT ![d].st = "failed"]
               /\ IF hpc = "download"
                  THEN HandlerFailed(IoError)
                  ELSE UNCHANGED <<hpc, res>>
    /\ UNCHANGED <<clock, uploads, served, req, work, calls>>
    /\ UNCHANGED <<colorVars, regionVars>>

\* downloadImage: fs.writeFile settles.  When the last download of the
\* request is done, the handler goes on: compareImages starts its two
\* metadata reads, or analyzeSingleImage starts.
WriteDone(d) ==
    /\ dl[d].st = "writing"
    /\ \E ok \in BOOLEAN :
          IF ok
          THEN /\ uploads' = [uploads EXCEPT ![dl[d].path] = dl[d].body]
               /\ dl' = [dl EXCEPT ![d].st = "done"]
               /\ res' = res
               /\ IF hpc = "download"
                       /\ \A e \in Needed(req.kind) \ {d} : dl[e].st = "done"
                  THEN IF req.kind = "compareUrls"
                       THEN StartStep("metadata")
                       ELSE hpc' = "analyzeOne" /\ calls' = calls
                  ELSE UNCHANGED <<hpc, calls>>
          ELSE /\ dl' = [dl EXCEPT ![d].st = "failed"]
               /\ UNCHANGED <<uploads, calls>>
               /\ IF hpc = "download"
                  THEN HandlerFailed(IoError)
                  ELSE UNCHANGED <<hpc, res>>
    /\ UNCHANGED <<clock, served, req, work>>
    /\ UNCHANGED <<colorVars, regionVars>>

\* compareImages: the two metadata reads settle.
ReadMetadata ==
    /\ hpc = "metadata"
    /\ \E ok \in BOOLEAN :
          LET metadata1 == Metadata(ContentAt(1))
              metadata2 == Metadata(ContentAt(2))
          IN  IF ~ok THEN CompareFailed(IoError)
              ELSE IF ~metadata1.ok THEN CompareFailed(metadata1.error)
              ELSE IF ~metadata2.ok THEN CompareFailed(metadata2.error)
              ELSE /\ work' = [work EXCEPT !.metadata1 = metadata1,
                                           !.metadata2 = metadata2]
                   /\ StartStep("analyze")
                   /\ UNCHANGED <<clock, uploads, served, req, dl, res>>
    /\ UNCHANGED <<colorVars, regionVars>>

\* compareImages: the two analyzeSingleImage calls settle.
AnalyzeImages ==
    /\ hpc = "analyze"
    /\ \E ok \in BOOLEAN :
          LET image1Analysis == AnalyzeSingleImage(ContentAt(1))
              image2Analysis == AnalyzeSingleImage(ContentAt(2))
          IN  IF ~ok THEN CompareFailed(Wrap("Error", IoError))
              ELSE IF ~image1Analysis.ok THEN CompareFailed(image1Analysis.error)
              ELSE IF ~image2Analysis.ok THEN CompareFailed(image2Analysis.error)
              ELSE /\ work' = [work EXCEPT !.image1Analysis = image1Analysis,
                                           !.image2Analysis = image2Analysis]
                   /\ StartStep("colors")
                   /\ UNCHANGED <<clock, uploads, served, req, dl, res>>
    /\ UNCHANGED <<colorVars, regionVars>>

\* compareImages: compareColors settles.
CompareColorsDone ==
    /\ hpc = "colors"
    /\ \E ok \in BOOLEAN :
          LET colorDifference == CompareColors(ContentAt(1), ContentAt(2))
          IN  IF ~ok THEN CompareFailed(IoError)
              ELSE IF ~colorDifference.ok THEN CompareFailed(colorDifference.error)
              ELSE /\ work' = [work EXCEPT !.colorDifference =
                                  [redDifference |-> colorDifference.redDifference,
                                   greenDifference |-> colorDifference.greenDifference,
                                   blueDifference |-> colorDifference.blueDifference]]
                   /\ StartStep("region")
                   /\ UNCHANGED <<clock, uploads, served, req, dl, res>>
    /\ UNCHANGED <<colorVars, regionVars>>

\* compareImages: handleRegionComparison settles and the comparison is
\* returned.  handleFileComparison answers with it; handleUrlComparison
\* starts the two unlinks first.
CompareRegionDone ==
    /\ hpc = "region"
    /\ \E ok \in BOOLEAN :
          LET colorsRegion ==
                  HandleRegionComparison(ContentAt(1), ContentAt(2),
                      [left |-> 0, top |-> 0, width |-> work.metadata1.width,
                       height |-> work.metadata1.height])
              comparison ==
                  Comparison(work.metadata1, work.metadata2, work.image1Analysis,
                             work.image2Analysis, work.colorDifference,
                             colorsRegion.value)
          IN  IF ~ok
              THEN CompareFailed(Wrap("Region comparison error",
                                      Wrap("Region color comparison error", IoError)))
              ELSE IF ~colorsRegion.ok THEN CompareFailed(colorsRegion.error)
              ELSE IF UrlKind(req.kind)
              THEN /\ work' = [work EXCEPT !.result = comparison]
                   /\ dl' = [d \in 1..2 |-> [dl[d] EXCEPT !.st = "unlinking"]]
                   /\ hpc' = "unlink"
                   /\ UNCHANGED <<clock, uploads, served, req, res, calls>>
              ELSE /\ Send(200, comparison)
                   /\ UNCHANGED <<clock, uploads, served, req, dl, work, calls>>
    /\ UNCHANGED <<colorVars, regionVars>>

\* analyzeSingleImage of the analyze handlers settles.
AnalyzeOne ==
    /\ hpc = "analyzeOne"
    /\ \E ok \in BOOLEAN :
          LET result == AnalyzeSingleImage(ContentAt(1))
          IN  IF ~ok
              THEN /\ HandlerFailed(Wrap("Error", IoError))
                   /\ UNCHANGED <<clock, uploads, served, req, dl, work, calls>>
              ELSE IF ~result.ok
              THEN /\ HandlerFailed(result.error)
                   /\ UNCHANGED <<clock, uploads, served, req, dl, work, calls>>
              ELSE IF UrlKind(req.kind)
              THEN /\ work' = [work EXCEPT !.result = result]
                   /\ dl' = [dl EXCEPT ![1].st = "unlinking"]
                   /\ hpc' = "unlink"
                   /\ UNCHANGED <<clock, uploads, served, req, res, calls>>
              ELSE /\ Send(200, result)
                   /\ UNCHANGED <<clock, uploads, served, req, dl, work, calls>>
    /\ UNCHANGED <<colorVars, regionVars>>

\* fs.unlink settles: it removes the file, or fails (the file is gone
\* already, or the disk fails).  The first failure rejects the handler;
\* when every unlink is done the handler answers with the result.
UnlinkDone(d) ==
    /\ dl[d].st = "unlinking"
    /\ \E ok \in BOOLEAN :
          IF ok /\ uploads[dl[d].path] # "none"
          THEN /\ uploads' = [uploads EXCEPT ![dl[d].path] = "none"]
               /\ dl' = [dl EXCEPT ![d].st = "unlinked"]
               /\ IF hpc = "unlink"
                       /\ \A e \in Needed(req.kind) \ {d} : dl[e].st = "unlinked"
                  THEN Send(200, work.result)
                  ELSE UNCHANGED <<hpc, res>>
          ELSE /\ dl' = [dl EXCEPT ![d].st = "unlinkFailed"]
               /\ uploads' = uploads
               /\ IF hpc = "unlink"
                  THEN HandlerFailed(IF uploads[dl[d].path] = "none"
                                     THEN <<"ENOENT">> ELSE IoError)
                  ELSE UNCHANGED <<hpc, res>>
    /\ UNCHANGED <<clock, served, req, work, calls>>
    /\ UNCHANGED <<colorVars, regionVars>>

Init ==
    /\ ColorsIdle
    /\ RegionIdle
    /\ ServerInit

Next ==
    \/ HandleFileComparison
    \/ HandleUrlComparison
    \/ HandleSingleImageAnalysis
    \/ HandleUrlImageAnalysis
    \/ Tick
    \/ \E d \in 1..2 : AxiosDone(d)
    \/ \E d \in 1..2 : WriteDone(d)
    \/ ReadMetadata
    \/ AnalyzeImages
    \/ CompareColorsDone
    \/ CompareRegionDone
    \/ AnalyzeOne
    \/ \E d \in 1..2 : UnlinkDone(d)

Spec == Init /\ [][Next]_vars

(***************************************************************************)
(* Claims about analyzeColors, checked under SpecColors.                   *)
(***************************************************************************)
\* The number of colour groups the loop over `data` finds.
GroupCount == Len(CountGroups(SamplePixels(data), 1, <<>>))

\* C2: for every non-empty sampled pixel sequence analyzeColors returns a
\* palette of at least 1 and at most 5 entries, whose first entry is the
\* dominant colour and whose entries are pairwise distinct buckets.
C2_PaletteShape ==
    (apc = "done" /\ Len(analysis.pixels) > 0) =>
        /\ analysis.ok
        /\ Len(analysis.palette) >= 1
        /\ Len(analysis.palette) <= PaletteSize
        /\ analysis.palette[1] = analysis.dominant
        /\ \A i, j \in 1..Len(analysis.palette) :
              i # j => analysis.palette[i] # analysis.palette[j]

\* C2 witness: an analysis that found more groups than the palette holds.
C2_Witness ==
    /\ apc = "done"
    /\ analysis.ok
    /\ GroupCount > PaletteSize
    /\ Len(analysis.palette) = PaletteSize

\* C10: whatever the channel count of the raw buffer, the sampling loop
\* produces exactly one pixel per grid cell, made of the r, g, b bytes of
\* that cell in row-major order, and no channel value is undefined.
C10_OnePixelPerCell ==
    apc = "done" =>
        /\ Len(analysis.pixels) = GridWidth * GridHeight
        /\ \A k \in 1..Len(analysis.pixels) :
              /\ analysis.pixels[k].r # undefined
              /\ analysis.pixels[k].g # undefined
              /\ analysis.pixels[k].b # undefined
              /\ k <= Len(sample.cells) =>
                    /\ analysis.pixels[k].r = sample.cells[k][1]
                    /\ sample.channels >= Stride =>
                          /\ analysis.pixels[k].g = sample.cells[k][2]
                          /\ analysis.pixels[k].b = sample.cells[k][3]

(***************************************************************************)
(* Claims about compareRegionColors, checked under SpecRegion.             *)
(***************************************************************************)
\* The set of colour keys of a raw buffer read three bytes at a time.
KeySet(buffer) ==
    {ColorKey(SamplePixels(buffer)[k]) : k \in 1..Len(SamplePixels(buffer))}

\* The elements of a sequence.
Range(seq) == {seq[i] : i \in 1..Len(seq)}

\* The number a toFixed(2) string stands for, in hundredths.
Hundredths(str) ==
    DigitsValue(SelectSeq(str, LAMBDA c : c # "."), 0)

\* C3: when the extracted region holds at least one pixel,
\* compareRegionColors returns 0 <= matchedColorsCount <= totalRegionColors,
\* a matchPercentage in [0, 100], and unmatchedColors is exactly the set of
\* region keys the candidate image does not have, so that matched and
\* unmatched add up to totalRegionColors.
C3_MatchWithinRegion ==
    rpc = "done" =>
        /\ rResult.ok
        /\ rResult.matchedColorsCount >= 0
        /\ rResult.matchedColorsCount <= rResult.totalRegionColors
        /\ rResult.totalRegionColors = Cardinality(KeySet(rBuffer))
        /\ rResult.matchedColorsCount =
              Cardinality(KeySet(rBuffer) \cap KeySet(RawBuffer(rImage2)))
        /\ rResult.matchPercentage # <<"N", "a", "N">>
        /\ Hundredths(rResult.matchPercentage) >= 0
        /\ Hundredths(rResult.matchPercentage) <= 100 * 100
        /\ Range(rResult.unmatchedColors) =
              KeySet(rBuffer) \ KeySet(RawBuffer(rImage2))
        /\ Len(rResult.unmatchedColors) = Cardinality(Range(rResult.unmatchedColors))
        /\ rResult.matchedColorsCount + Len(rResult.unmatchedColors) =
              rResult.totalRegionColors

\* C3 witness: a match in which some region colours are found in the
\* candidate image, others are not, and the candidate has a colour the
\* region lacks.
C3_Witness ==
    /\ rpc = "done"
    /\ rResult.matchedColorsCount > 0
    /\ Len(rResult.unmatchedColors) > 0
    /\ KeySet(RawBuffer(rImage2)) \ KeySet(rBuffer) # {}

\* C4: a region without colours (an empty rectangle) ends in an error;
\* no result with zero region colours, and so with a percentage of NaN,
\* is ever returned.
C4_EmptyRegionFails ==
    /\ rpc = "done" =>
          /\ rResult.totalRegionColors > 0
          /\ rResult.matchPercentage # <<"N", "a", "N">>
    /\ (rpc \in {"read", "match", "done", "failed"}
          /\ rValid.width * rValid.height = 0) => rpc = "failed"

\* C4 witness: the call failed on a rectangle that is empty and otherwise
\* inside the image.
C4_Witness ==
    /\ rpc = "failed"
    /\ Inside(rValid, rImage1)
    /\ rValid.width * rValid.height = 0

\* C5: the rectangle handed to extraction lies inside the base image,
\* whatever region was asked for.
C5_RegionInsideImage ==
    rpc = "extract" => Inside(rValid, rImage1)

(***************************************************************************)
(* Claims about the handlers and compareImages, checked under Spec.        *)
(***************************************************************************)
\* The request lacks an input its handler requires.
MissingInput ==
    \/ req.kind \in {"compareFiles", "compareUrls"}
          /\ (req.a = "missing" \/ req.b = "missing")
    \/ req.kind \in {"analyzeFile", "analyzeUrl"} /\ req.a = "missing"

\* The answer to the request is an error caused outside the program.
OutsideFailure ==
    /\ Len(res) >= 1
    /\ res[1].status = ServerError
    /\ res[1].body.error[Len(res[1].body.error)] = "EIO"

\* C1: comparing a decodable image with itself yields a dimension
\* difference of 0 and 0, a colour difference of 0, 0 and 0, and a region
\* match in which every region colour is matched: 100.00 per cent and no
\* unmatched colours.
C1_SelfComparison ==
    (/\ hpc = "sent"
     /\ req.kind = "compareFiles"
     /\ req.a \in Pictures
     /\ req.b = req.a
     /\ ~OutsideFailure) =>
        /\ res[1].status = 200
        /\ res[1].body.dimensionDifference = [width |-> 0, height |-> 0]
        /\ res[1].body.colorDifference =
              [redDifference |-> 0, greenDifference |-> 0, blueDifference |-> 0]
        /\ res[1].body.colorsRegion.difference.matchedColorsCount =
              res[1].body.colorsRegion.difference.totalRegionColors
        /\ res[1].body.colorsRegion.difference.matchPercentage =
              <<"1", "0", "0", ".", "0", "0">>
        /\ res[1].body.colorsRegion.difference.unmatchedColors = <<>>

\* C6: a request that lacks a required input (also one without any files
\* or body object) is answered with 400 and starts no download, analysis
\* or comparison; every other failure is answered with 500 and a body
\* {error: message}.
C6_MissingInputIs400 ==
    /\ (req.kind # "none" /\ MissingInput) =>
          /\ Len(res) = 1
          /\ res[1].status = BadRequest
          /\ \A d \in 1..2 : dl[d].st = "none"
          /\ \A s \in Steps : calls[s] = 0
          /\ work = NoWork
    /\ (req.kind # "none" /\ ~MissingInput) =>
          \A i \in 1..Len(res) :
              res[i].status # 200 =>
                  /\ res[i].status = ServerError
                  /\ DOMAIN res[i].body = {"error"}

\* C7: when the answer to a URL request is sent, every temporary file the
\* request wrote has been deleted, whether the answer is a result or an
\* error.
C7_TempFilesDeleted ==
    (UrlKind(req.kind) /\ Len(res) >= 1) =>
        \A d \in 1..2 :
            dl[d].st \in {"done", "unlinking", "unlinked", "unlinkFailed"}
                => uploads[dl[d].path] = "none"

\* C8: a comparison whose sub-step fails is answered once, with the error
\* wrapped by compareImages; an answer with status 200 carries every field
\* of the comparison and is sent only after all four sub-steps ran; no
\* sub-step is started twice.
C8_NoPartialComparison ==
    req.kind \in {"compareFiles", "compareUrls"} =>
        /\ Len(res) <= 1
        /\ hpc = "sent" <=> Len(res) = 1
        /\ \A s \in Steps : calls[s] <= 1
        /\ \A i \in 1..Len(res) :
              /\ res[i].status = 200 =>
                    /\ DOMAIN res[i].body = ComparisonFields
                    /\ \A s \in Steps : calls[s] = 1
              /\ res[i].status # 200 => DOMAIN res[i].body = {"error"}
              /\ (calls["metadata"] = 1 /\ work.result = Nothing
                     /\ res[i].status # 200) =>
                    /\ res[i].status = ServerError
                    /\ Head(res[i].body.error) = "Comparison Error"
              /\ (req.kind = "compareFiles" /\ ~MissingInput
                     /\ calls["region"] = 0) =>
                    /\ res[i].status = ServerError
                    /\ Head(res[i].body.error) = "Comparison Error"

\* C8 witness: the colour comparison failed after both analyses had
\* succeeded, and the one answer is the wrapped error.
C8_Witness ==
    /\ hpc = "sent"
    /\ req.kind = "compareFiles"
    /\ calls["colors"] = 1
    /\ calls["region"] = 0
    /\ work.image1Analysis # Nothing
    /\ Len(res) = 1
    /\ res[1].status = ServerError
    /\ Head(res[1].body.error) = "Comparison Error"

\* C9: the saturation difference of a comparison is the distance between
\* the contrast of the first image (the stdev of its channel 0) and the
\* saturation of the second image.
C9_SaturationAgainstContrast ==
    (/\ req.kind = "compareFiles"
     /\ Len(res) = 1
     /\ res[1].status = 200) =>
        res[1].body.saturationComparison.difference =
            Abs(Stats(ImageOf(req.a))[1].stdev
                   - CalculateSaturation(Stats(ImageOf(req.b))))

\* C9 witness: a comparison whose saturation difference is neither the
\* distance of the two saturations nor what the swapped images give.
C9_Witness ==
    /\ req.kind = "compareFiles"
    /\ Len(res) = 1
    /\ res[1].status = 200
    /\ res[1].body.saturationComparison.difference #
          Abs(CalculateSaturation(Stats(ImageOf(req.a)))
                 - CalculateSaturation(Stats(ImageOf(req.b))))
    /\ res[1].body.saturationComparison.difference #
          Abs(Stats(ImageOf(req.b))[1].stdev
                 - CalculateSaturation(Stats(ImageOf(req.a))))

(***************************************************************************)
(* The ranking of analyzeColors, stated on the pixel sequence alone and    *)
(* checked under SpecColors.                                               *)
(***************************************************************************)
\* The pixels that open a bucket: no earlier pixel has the same key.
FirstOccurrences(pixels) ==
    {k \in 1..Len(pixels) :
        \A j \in 1..(k - 1) : GroupKey(pixels[j]) # GroupKey(pixels[k])}

\* The number of pixels in the bucket of pixel k.
BucketSize(pixels, k) ==
    Cardinality({j \in 1..Len(pixels) :
                    GroupKey(pixels[j]) = GroupKey(pixels[k])})

\* The place of the bucket opened by pixel k: after every larger bucket
\* and after every bucket of the same size that was opened earlier.
Place(pixels, k) ==
    1 + Cardinality({j \in FirstOccurrences(pixels) :
            \/ BucketSize(pixels, j) > BucketSize(pixels, k)
            \/ BucketSize(pixels, j) = BucketSize(pixels, k) /\ j < k})

\* The floor-quantized corner of the bucket of a pixel.
Corner(pixel) ==
    <<FloorTo(pixel.r, GroupSize), FloorTo(pixel.g, GroupSize),
      FloorTo(pixel.b, GroupSize)>>

\* C11: buckets are ranked by descending pixel count, equal counts in the
\* order in which their first pixel occurred; the palette lists the
\* corners of the buckets in that order and the dominant colour is the
\* corner of the first, each channel a multiple of 10, so the pixel
\* sequence alone fixes dominant colour and palette.
C11_RankByCountThenFirstSeen ==
    (apc = "done" /\ analysis.ok) =>
        /\ \A k \in FirstOccurrences(analysis.pixels) :
              /\ Place(analysis.pixels, k) = 1 =>
                    analysis.dominant = Corner(analysis.pixels[k])
              /\ Place(analysis.pixels, k) <= PaletteSize =>
                    /\ Place(analysis.pixels, k) <= Len(analysis.palette)
                    /\ analysis.palette[Place(analysis.pixels, k)] =
                          Corner(analysis.pixels[k])
        /\ Len(analysis.palette) =
              Min(PaletteSize, Cardinality(FirstOccurrences(analysis.pixels)))
        /\ Len(analysis.dominant) = 3
        /\ \A c \in 1..3 :
              analysis.dominant[c] \in {GroupSize * n : n \in 0..25}

\* C11 witness: the sort moved a later bucket to the front, and two
\* buckets of equal size are both in the palette.
C11_Witness ==
    /\ apc = "done"
    /\ analysis.ok
    /\ \E k \in FirstOccurrences(analysis.pixels) :
          /\ k > 1
          /\ Place(analysis.pixels, k) = 1
    /\ \E j, k \in FirstOccurrences(analysis.pixels) :
          /\ j < k
          /\ BucketSize(analysis.pixels, j) = BucketSize(analysis.pixels, k)
          /\ Place(analysis.pixels, k) <= PaletteSize

(***************************************************************************)
(* The temporary files of downloadImage, checked under Spec.               *)
(***************************************************************************)
\* The download has made its file name from Date.now().
Named(d) ==
    dl[d].st \in {"writing", "done", "unlinking", "unlinked", "unlinkFailed"}

\* C12: two downloads that are in flight at the same time write to
\* distinct temporary file paths, so neither overwrites the other's file
\* and every path a request reads or deletes holds the bytes of its own
\* download.
C12_DistinctTempPaths ==
    /\ \A d, e \in 1..2 :
          (d # e /\ Named(d) /\ Named(e)) => dl[d].path # dl[e].path
    /\ \A d \in 1..2 :
          (dl[d].st = "done" /\ hpc \in Steps \cup {"analyzeOne"}) =>
              uploads[dl[d].path] = dl[d].body

=============================================================================
